---- MODULE Spec2Model ----
(***************************************************************************)
(* Model of the VCI directory auditor (vci-directory-auditor/src/index.ts). *)
(*                                                                         *)
(* JavaScript strings are modelled as sequences of one-character strings,  *)
(* so that the regular-expression replacement of getIssuerUrl and the      *)
(* truthiness test of getDuplicates' filter callback are computed, not     *)
(* assumed.  A JWK key is modelled by its kid.                             *)
(***************************************************************************)
EXTENDS Integers, Sequences, FiniteSets, TLC

VARIABLES
    pc,                   \* position of the running function
    options,              \* program options: previous (given or not), test
    issuers,              \* issuers.participating_issuers of fetchDirectory
    taskState,            \* state of each per-issuer promise
    taskValue,            \* the IssuerLogInfo each per-issuer promise resolved to
    response,             \* what each issuer's key request came to
    settled,              \* indices of the per-issuer promises, in settling order
    directoryLog,         \* directoryLog (main) / currentLog (audit)
    directoryLogFile,     \* content of options.directorylog, NoFile until written
    previousFile,         \* what options.previous holds when it is read
    previousDirectoryLog, \* previousDirectoryLog (main) / previousLog (audit)
    auditLog,             \* auditLog of main, the value audit returned
    auditLogFile,         \* content of options.auditlog, NoFile until written
    failure,              \* the step whose error main's catch printed, or "none"
    steps,                \* the steps main has executed, in order
    array,                \* argument of getDuplicates
    duplicates            \* value returned by getDuplicates

vars == <<pc, options, issuers, taskState, taskValue, response, settled, directoryLog,
          directoryLogFile, previousFile, previousDirectoryLog, auditLog,
          auditLogFile, failure, steps, array, duplicates>>

----------------------------------------------------------------------------
(* Bounds *)

MaxLen == 4        \* longest argument of getDuplicates
MaxIssuers == 2    \* most issuers in a fetched directory
MaxEntries == 2    \* most issuerInfo entries of a snapshot handed to audit

----------------------------------------------------------------------------
(* Strings *)

Range(s) == {s[i] : i \in 1..Len(s)}

SeqsUpTo(S, n) == UNION {[1..k -> S] : k \in 0..n}

Min(S) == CHOOSE x \in S : \A y \in S : x <= y

Digits == {"0", "1", "2", "3", "4", "5", "6", "7", "8", "9"}

AuditDash == <<"a", "u", "d", "i", "t", "-">>

AuditWord == <<"a", "u", "d", "i", "t">>

\* a JavaScript string is falsy exactly when it is empty
Truthy(str) == str # <<>>

----------------------------------------------------------------------------
(* getDuplicates *)

\* the filter callback applied from position i on, `set` being the callback's
\* captured Set; an item is kept when the callback returns a truthy value
RECURSIVE FilterDuplicates(_, _, _)
FilterDuplicates(arr, i, set) ==
    IF i > Len(arr) THEN <<>>
    ELSE IF arr[i] \in set
         THEN FilterDuplicates(arr, i + 1, set \ {arr[i]})
         ELSE (IF Truthy(arr[i]) THEN <<arr[i]>> ELSE <<>>)
              \o FilterDuplicates(arr, i + 1, set)

\* Array.from(new Set(arr)): first occurrences, in insertion order
RECURSIVE ArrayFromSet(_)
ArrayFromSet(arr) ==
    IF arr = <<>> THEN <<>>
    ELSE LET front == ArrayFromSet(SubSeq(arr, 1, Len(arr) - 1))
             last == arr[Len(arr)]
         IN IF last \in Range(front) THEN front ELSE Append(front, last)

getDuplicates(arr) == ArrayFromSet(FilterDuplicates(arr, 1, Range(arr)))

----------------------------------------------------------------------------
(* Values *)

\* the JavaScript value undefined (also standing for null and the other falsy
\* values JSON.parse can return, which `if (previousLog)` treats alike)
Undefined == [kind |-> "undefined"]

\* a truthy JSON value that has no issuerInfo array (such as {})
JsonObject == [kind |-> "object"]

NoFile == [kind |-> "nofile"]

Iss1 == <<"x", "/">> \o AuditDash \o <<"1">>

Iss2 == <<"x", "/">> \o AuditDash \o <<"2">>

IssB == <<"B">>

Kid1 == <<"k", "1">>

Kid2 == <<"k", "2">>

\* TrustedIssuer values
IssuerPool ==
    { [iss |-> Iss1, name |-> <<"N">>],
      [iss |-> Iss2, name |-> <<"N">>],
      [iss |-> IssB, name |-> <<"M">>] }

\* the kids of the key sets an issuer may publish
KidSeqs == { <<Kid1>>, <<Kid2>>, <<Kid1, Kid2>> }

\* IssuerLogInfo; hasKeys is FALSE when the keys property is undefined
IssuerLogInfo(issuer, keys, hasKeys, errors) ==
    [issuer |-> issuer, keys |-> keys, hasKeys |-> hasKeys, errors |-> errors]

\* DirectoryLog
DirectoryLog(directory, time, issuerInfo) ==
    [kind |-> "log", directory |-> directory, time |-> time,
     issuerInfo |-> issuerInfo]

----------------------------------------------------------------------------
(* audit *)

includes(arr, x) == x \in Range(arr)

\* iss.replace(/audit-\d/, 'audit'): the first match only
Replace(iss) ==
    LET matches == {i \in 1..(Len(iss) - 6) :
                        /\ SubSeq(iss, i, i + 5) = AuditDash
                        /\ iss[i + 6] \in Digits}
    IN IF matches = {} THEN iss
       ELSE LET i == Min(matches)
            IN SubSeq(iss, 1, i - 1) \o AuditWord \o SubSeq(iss, i + 7, Len(iss))

getIssuerUrl(isTest, iss) == IF isTest THEN Replace(iss) ELSE iss

getIssuers(isTest, dir) ==
    [i \in 1..Len(dir.issuerInfo) |-> getIssuerUrl(isTest, dir.issuerInfo[i].issuer.iss)]

getIssuerKids(isTest, dir) ==
    [i \in 1..Len(dir.issuerInfo) |->
        [iss |-> getIssuerUrl(isTest, dir.issuerInfo[i].issuer.iss),
         kids |-> dir.issuerInfo[i].keys]]

\* arr.reduce((acc, current) => acc + (other.includes(current) ? 0 : 1), 0)
RECURSIVE CountNotIncluded(_, _)
CountNotIncluded(arr, other) ==
    IF arr = <<>> THEN 0
    ELSE CountNotIncluded(SubSeq(arr, 1, Len(arr) - 1), other)
         + (IF includes(other, arr[Len(arr)]) THEN 0 ELSE 1)

\* the count taken over the wrong array
newIssuerCountSwapped(currentIss, previousIss) == CountNotIncluded(previousIss, currentIss)

newIssuerCount(currentIss, previousIss) == CountNotIncluded(currentIss, previousIss)

deletedIssuerCount(currentIss, previousIss) == CountNotIncluded(previousIss, currentIss)

\* the difference taken the wrong way round
RemovedOfSwapped(pik, cik) == SelectSeq(cik.kids, LAMBDA kid : ~includes(pik.kids, kid))

\* the kids of pik that cik does not include, in pik's order
RemovedOf(pik, cik) == SelectSeq(pik.kids, LAMBDA kid : ~includes(cik.kids, kid))

\* the push without its `removedKids.length > 0` test
PushRemovedUnguarded(pik, cik) ==
    IF pik.iss = cik.iss
    THEN <<[iss |-> pik.iss, kids |-> RemovedOf(pik, cik)]>>
    ELSE <<>>

\* the push without its `pik.iss === cik.iss` test
PushRemovedAnyIssuer(pik, cik) ==
    IF Len(RemovedOf(pik, cik)) > 0
    THEN <<[iss |-> pik.iss, kids |-> RemovedOf(pik, cik)]>>
    ELSE <<>>

\* what one pair (pik, cik) pushes onto auditLog.removedKids
PushRemoved(pik, cik) ==
    IF pik.iss = cik.iss /\ Len(RemovedOf(pik, cik)) > 0
    THEN <<[iss |-> pik.iss, kids |-> RemovedOf(pik, cik)]>>
    ELSE <<>>

\* currentIssKids.forEach(cik => ...) from position j on
RECURSIVE ForEachCurrent(_, _, _)
ForEachCurrent(pik, currentIssKids, j) ==
    IF j > Len(currentIssKids) THEN <<>>
    ELSE PushRemoved(pik, currentIssKids[j])
         \o ForEachCurrent(pik, currentIssKids, j + 1)

\* previousIssKids.forEach(pik => ...) from position i on
RECURSIVE ForEachPrevious(_, _, _)
ForEachPrevious(previousIssKids, currentIssKids, i) ==
    IF i > Len(previousIssKids) THEN <<>>
    ELSE ForEachCurrent(previousIssKids[i], currentIssKids, 1)
         \o ForEachPrevious(previousIssKids, currentIssKids, i + 1)

removedKids(previousIssKids, currentIssKids) ==
    ForEachPrevious(previousIssKids, currentIssKids, 1)

\* issuerInfo.flatMap(info => info.keys.map(key => key.kid))
RECURSIVE FlatKids(_)
FlatKids(issuerInfo) ==
    IF issuerInfo = <<>> THEN <<>>
    ELSE FlatKids(SubSeq(issuerInfo, 1, Len(issuerInfo) - 1))
         \o issuerInfo[Len(issuerInfo)].keys

TypeError == [threw |-> "TypeError"]

\* info.keys.map and previousLog.issuerInfo.map throw on undefined
AuditThrows(currentLog, previousLog) ==
    \/ \E i \in 1..Len(currentLog.issuerInfo) : ~currentLog.issuerInfo[i].hasKeys
    \/ /\ previousLog.kind # "undefined"
       /\ \/ previousLog.kind # "log"
          \/ \E i \in 1..Len(previousLog.issuerInfo) : ~previousLog.issuerInfo[i].hasKeys

\* the fields of the AuditLog that need no previous log
AuditAlways(isTest, currentLog) ==
    [directory |-> currentLog.directory,
     time |-> currentLog.time,
     issuerCount |-> Len(currentLog.issuerInfo),
     issuersWithErrors |-> SelectSeq(currentLog.issuerInfo, LAMBDA info : Len(info.errors) > 0),
     duplicatedKids |-> getDuplicates(FlatKids(currentLog.issuerInfo)),
     duplicatedIss |-> getDuplicates(getIssuers(isTest, currentLog)),
     duplicatedNames |-> getDuplicates([i \in 1..Len(currentLog.issuerInfo) |->
                                           currentLog.issuerInfo[i].issuer.name])]

\* the fields set under `if (previousLog)`
AuditPrevious(isTest, currentLog, previousLog) ==
    [newIssuerCount |-> newIssuerCount(getIssuers(isTest, currentLog),
                                       getIssuers(isTest, previousLog)),
     deletedIssuerCount |-> deletedIssuerCount(getIssuers(isTest, currentLog),
                                               getIssuers(isTest, previousLog)),
     removedKids |-> removedKids(getIssuerKids(isTest, previousLog),
                                 getIssuerKids(isTest, currentLog))]

audit(isTest, currentLog, previousLog) ==
    IF AuditThrows(currentLog, previousLog) THEN TypeError
    ELSE IF previousLog.kind # "undefined"
         THEN AuditAlways(isTest, currentLog) @@ AuditPrevious(isTest, currentLog, previousLog)
         ELSE AuditAlways(isTest, currentLog)

----------------------------------------------------------------------------
(* fetchDirectory *)

DirectoryUrl == "directory"

CurrentTime == "now"

EarlierTime == "earlier"

NoFailure == [step |-> "none", error |-> "none"]

\* the issuers a directory lists, by position
ListedIssuers == <<[iss |-> Iss1, name |-> <<"N">>],
                   [iss |-> IssB, name |-> <<"M">>],
                   [iss |-> Iss2, name |-> <<"N">>]>>

\* the well-formed directory documents: participating_issuers of n issuers
Directory(n) == [i \in 1..n |-> ListedIssuers[((i - 1) % Len(ListedIssuers)) + 1]]

\* what got(directoryUrl) and JSON.parse(response.body) can come to
DirectoryResponses ==
    { [kind |-> "timeout"], [kind |-> "httpError"], [kind |-> "malformed"],
      [kind |-> "null"], [kind |-> "noIssuers"] }
    \cup { [kind |-> "issuers", participating_issuers |-> Directory(n)] : n \in 0..MaxIssuers }

\* the error fetchDirectory rejects with, "none" when it goes on
DirectoryError(r) ==
    CASE r.kind = "timeout" -> "TimeoutError"
      [] r.kind = "httpError" -> "HTTPError"
      [] r.kind = "malformed" -> "SyntaxError"
      [] r.kind = "null" -> "TypeError"
      [] r.kind = "noIssuers" -> "TypeError"
      [] OTHER -> "none"

\* what got(jwkURL) and JSON.parse(response.body) can come to
KeyResponses ==
    { [kind |-> "timeout"], [kind |-> "httpError"], [kind |-> "malformed"],
      [kind |-> "null"], [kind |-> "noKeys"] }
    \cup { [kind |-> "keySet", keys |-> ks] : ks \in KidSeqs }

\* the per-issuer callback without its try/catch: a failure rejects the promise
IssuerTaskUncaught(issuer, r) ==
    IF r.kind \in {"timeout", "httpError", "malformed", "null"}
    THEN [state |-> "rejected", value |-> Undefined]
    ELSE [state |-> "fulfilled",
          value |-> IssuerLogInfo(issuer, IF r.kind = "keySet" THEN r.keys ELSE <<>>,
                                  r.kind = "keySet", <<>>)]

\* the per-issuer async callback, from the response of got(jwkURL) to its return
IssuerTask(issuer, r) ==
    [state |-> "fulfilled",
     value |->
        CASE r.kind = "timeout" -> IssuerLogInfo(issuer, <<>>, TRUE, <<"TimeoutError">>)
          [] r.kind = "httpError" -> IssuerLogInfo(issuer, <<>>, TRUE, <<"HTTPError">>)
          [] r.kind = "malformed" -> IssuerLogInfo(issuer, <<>>, TRUE, <<"SyntaxError">>)
          [] r.kind = "null" ->
                IssuerLogInfo(issuer, <<>>, TRUE, <<"Failed to parse JSON KeySet schema">>)
          [] r.kind = "noKeys" -> IssuerLogInfo(issuer, <<>>, FALSE, <<>>)
          [] OTHER -> IssuerLogInfo(issuer, r.keys, TRUE, <<>>)]

\* Promise.all: rejected once an input is rejected, else the values by position
PromiseAll(states, values) ==
    IF \E i \in DOMAIN states : states[i] = "rejected"
    THEN [state |-> "rejected", value |-> <<>>]
    ELSE [state |-> "fulfilled", value |-> [i \in DOMAIN states |-> values[i]]]

PromiseAllSettled(states) ==
    \/ \A i \in DOMAIN states : states[i] = "fulfilled"
    \/ \E i \in DOMAIN states : states[i] = "rejected"

\* main calls fetchDirectory, which awaits got(directoryUrl)
FetchDirectory ==
    /\ pc = "start"
    /\ pc' = "awaitDirectory"
    /\ steps' = Append(steps, "fetch")
    /\ UNCHANGED <<options, issuers, taskState, taskValue, response, settled, directoryLog,
                   directoryLogFile, previousFile, previousDirectoryLog, auditLog,
                   auditLogFile, failure, array, duplicates>>

\* the directory response arrives: fetchDirectory rejects, or starts every
\* per-issuer task (each runs to its own await) and awaits Promise.all
DirectoryResponse ==
    /\ pc = "awaitDirectory"
    /\ \E r \in DirectoryResponses :
          IF r.kind = "issuers"
          THEN /\ issuers' = r.participating_issuers
               /\ taskState' = [i \in 1..Len(r.participating_issuers) |-> "pending"]
               /\ taskValue' = [i \in 1..Len(r.participating_issuers) |-> Undefined]
               /\ response' = [i \in 1..Len(r.participating_issuers) |-> Undefined]
               /\ pc' = "join"
               /\ UNCHANGED failure
          ELSE /\ failure' = [step |-> "fetch", error |-> DirectoryError(r)]
               /\ pc' = "failed"
               /\ UNCHANGED <<issuers, taskState, taskValue, response>>
    /\ UNCHANGED <<options, settled, directoryLog, directoryLogFile, previousFile,
                   previousDirectoryLog, auditLog, auditLogFile, steps, array,
                   duplicates>>

\* the response to issuer i's key request arrives and task i runs to its end
IssuerResponse(i) ==
    /\ pc = "join"
    /\ taskState[i] = "pending"
    /\ \E r \in KeyResponses :
          /\ taskState' = [taskState EXCEPT ![i] = IssuerTask(issuers[i], r).state]
          /\ taskValue' = [taskValue EXCEPT ![i] = IssuerTask(issuers[i], r).value]
          /\ response' = [response EXCEPT ![i] = r]
    /\ settled' = Append(settled, i)
    /\ UNCHANGED <<pc, options, issuers, directoryLog, directoryLogFile, previousFile,
                   previousDirectoryLog, auditLog, auditLogFile, failure, steps,
                   array, duplicates>>

\* a join that collects the values in the order the promises settled
JoinInSettlingOrder ==
    /\ pc = "join"
    /\ PromiseAllSettled(taskState)
    /\ directoryLog' =
          DirectoryLog(DirectoryUrl, CurrentTime,
                       [k \in 1..Len(settled) |-> taskValue[settled[k]]])
    /\ pc' = "writeDirectoryLog"
    /\ UNCHANGED <<options, issuers, taskState, taskValue, response, settled,
                   directoryLogFile, previousFile, previousDirectoryLog, auditLog,
                   auditLogFile, failure, steps, array, duplicates>>

\* Promise.all settles; fetchDirectory assigns issuerInfo (left [] when
\* Promise.all rejected) and returns directoryLog to main
Join ==
    /\ pc = "join"
    /\ PromiseAllSettled(taskState)
    /\ directoryLog' =
          DirectoryLog(DirectoryUrl, CurrentTime,
                       IF PromiseAll(taskState, taskValue).state = "fulfilled"
                       THEN PromiseAll(taskState, taskValue).value
                       ELSE <<>>)
    /\ pc' = "writeDirectoryLog"
    /\ UNCHANGED <<options, issuers, taskState, taskValue, response, settled, directoryLogFile,
                   previousFile, previousDirectoryLog, auditLog, auditLogFile,
                   failure, steps, array, duplicates>>

----------------------------------------------------------------------------
(* main *)

\* the directory logs a previous run may have left
PreviousLogs ==
    { DirectoryLog(DirectoryUrl, EarlierTime,
                   <<IssuerLogInfo(ListedIssuers[1], <<Kid1, Kid2>>, TRUE, <<>>)>>) }

\* what options.previous can hold
PreviousFiles ==
    { [kind |-> "missing"], [kind |-> "unreadable"], [kind |-> "malformed"],
      [kind |-> "null"], JsonObject }
    \cup PreviousLogs

\* JSON.parse(fs.readFileSync(options.previous)) under main's inner try/catch
ReadPrevious(file) ==
    CASE file.kind \in {"missing", "unreadable", "malformed", "null"} -> Undefined
      [] OTHER -> file

\* a write whose failure is recorded but does not end the run
WriteDirectoryLogGoingOn ==
    /\ pc = "writeDirectoryLog"
    /\ steps' = Append(steps, "writeDirectoryLog")
    /\ \E ok \in BOOLEAN :
          IF ok
          THEN /\ directoryLogFile' = directoryLog
               /\ UNCHANGED failure
          ELSE /\ failure' = [step |-> "writeDirectoryLog", error |-> "Error"]
               /\ UNCHANGED directoryLogFile
    /\ pc' = "loadPrevious"
    /\ UNCHANGED <<options, issuers, taskState, taskValue, response, settled,
                   directoryLog, previousFile, previousDirectoryLog, auditLog,
                   auditLogFile, array, duplicates>>

\* fs.writeFileSync(options.directorylog, ...)
WriteDirectoryLog ==
    /\ pc = "writeDirectoryLog"
    /\ steps' = Append(steps, "writeDirectoryLog")
    /\ \E ok \in BOOLEAN :
          IF ok
          THEN /\ directoryLogFile' = directoryLog
               /\ pc' = "loadPrevious"
               /\ UNCHANGED failure
          ELSE /\ failure' = [step |-> "writeDirectoryLog", error |-> "Error"]
               /\ pc' = "failed"
               /\ UNCHANGED directoryLogFile
    /\ UNCHANGED <<options, issuers, taskState, taskValue, response, settled, directoryLog,
                   previousFile, previousDirectoryLog, auditLog, auditLogFile,
                   array, duplicates>>

\* if (options.previous) { try { previousDirectoryLog = ... } catch ... }
LoadPrevious ==
    /\ pc = "loadPrevious"
    /\ steps' = Append(steps, "loadPrevious")
    /\ IF options.previous
       THEN \E file \in PreviousFiles :
               /\ previousFile' = file
               /\ previousDirectoryLog' = ReadPrevious(file)
       ELSE UNCHANGED <<previousFile, previousDirectoryLog>>
    /\ pc' = "audit"
    /\ UNCHANGED <<options, issuers, taskState, taskValue, response, settled, directoryLog,
                   directoryLogFile, auditLog, auditLogFile, failure, array,
                   duplicates>>

\* const auditLog = audit(options.test, directoryLog, previousDirectoryLog)
Audit ==
    /\ pc = "audit"
    /\ steps' = Append(steps, "audit")
    /\ IF AuditThrows(directoryLog, previousDirectoryLog)
       THEN /\ failure' = [step |-> "audit", error |-> TypeError.threw]
            /\ pc' = "failed"
            /\ UNCHANGED auditLog
       ELSE /\ auditLog' = audit(options.test, directoryLog, previousDirectoryLog)
            /\ pc' = "writeAuditLog"
            /\ UNCHANGED failure
    /\ UNCHANGED <<options, issuers, taskState, taskValue, response, settled, directoryLog,
                   directoryLogFile, previousFile, previousDirectoryLog,
                   auditLogFile, array, duplicates>>

\* fs.writeFileSync(options.auditlog, ...)
WriteAuditLog ==
    /\ pc = "writeAuditLog"
    /\ steps' = Append(steps, "writeAuditLog")
    /\ \E ok \in BOOLEAN :
          IF ok
          THEN /\ auditLogFile' = auditLog
               /\ pc' = "done"
               /\ UNCHANGED failure
          ELSE /\ failure' = [step |-> "writeAuditLog", error |-> "Error"]
               /\ pc' = "failed"
               /\ UNCHANGED auditLogFile
    /\ UNCHANGED <<options, issuers, taskState, taskValue, response, settled, directoryLog,
                   directoryLogFile, previousFile, previousDirectoryLog, auditLog,
                   array, duplicates>>

\* a getDuplicates call
CallGetDuplicates ==
    /\ pc = "getDuplicates"
    /\ duplicates' = getDuplicates(array)
    /\ pc' = "returned"
    /\ UNCHANGED <<options, issuers, taskState, taskValue, response, settled, directoryLog,
                   directoryLogFile, previousFile, previousDirectoryLog, auditLog,
                   auditLogFile, failure, steps, array>>

----------------------------------------------------------------------------
(* Specifications *)

\* the state no step has touched
Untouched ==
    /\ issuers = <<>>
    /\ taskState = <<>>
    /\ taskValue = <<>>
    /\ response = <<>>
    /\ settled = <<>>
    /\ directoryLogFile = NoFile
    /\ previousFile = NoFile
    /\ auditLog = Undefined
    /\ auditLogFile = NoFile
    /\ failure = NoFailure
    /\ steps = <<>>
    /\ duplicates = <<>>

\* a run of the program: main, from its options
Init ==
    /\ pc = "start"
    /\ options \in [previous : BOOLEAN, test : BOOLEAN]
    /\ directoryLog = Undefined
    /\ previousDirectoryLog = Undefined
    /\ array = <<>>
    /\ Untouched

Next ==
    \/ FetchDirectory
    \/ DirectoryResponse
    \/ \E i \in 1..Len(issuers) : IssuerResponse(i)
    \/ Join
    \/ WriteDirectoryLog
    \/ LoadPrevious
    \/ Audit
    \/ WriteAuditLog

Spec == Init /\ [][Next]_vars

\* the issuerInfo entries of the logs handed to audit: the two test issuers
\* with any key set, the third issuer with both keys
Entries ==
    { IssuerLogInfo(issuer, keys, TRUE, <<>>) :
        issuer \in {i \in IssuerPool : i.iss # IssB}, keys \in KidSeqs }
    \cup { IssuerLogInfo(issuer, <<Kid1, Kid2>>, TRUE, <<>>) :
              issuer \in {i \in IssuerPool : i.iss = IssB} }

AuditLogs ==
    { DirectoryLog(DirectoryUrl, CurrentTime, info) : info \in SeqsUpTo(Entries, MaxEntries) }

\* a call of audit on any current log and any previous log, or none
InitAudit ==
    /\ pc = "audit"
    /\ directoryLog \in AuditLogs
    /\ previousDirectoryLog \in AuditLogs \cup {Undefined}
    /\ options \in [previous : {previousDirectoryLog # Undefined}, test : BOOLEAN]
    /\ array = <<>>
    /\ Untouched

SpecAudit == InitAudit /\ [][Audit]_vars

\* the strings getDuplicates is called on
Strings == { <<>>, <<"a">>, <<"A">> }

\* a call of getDuplicates on any array
InitDuplicates ==
    /\ pc = "getDuplicates"
    /\ array \in SeqsUpTo(Strings, MaxLen)
    /\ options = [previous |-> FALSE, test |-> FALSE]
    /\ directoryLog = Undefined
    /\ previousDirectoryLog = Undefined
    /\ Untouched

SpecDuplicates == InitDuplicates /\ [][CallGetDuplicates]_vars

----------------------------------------------------------------------------
(* Properties *)

Count(arr, v) == Cardinality({i \in 1..Len(arr) : arr[i] = v})

\* fetchDirectory has returned its snapshot to main
Fetched == directoryLog.kind = "log"

\* got(jwkURL) rejected: the key request timed out or had a non-success status
FetchFailed(r) == r.kind \in {"timeout", "httpError"}

\* audit has returned a report
Audited == pc = "writeAuditLog"

Compared == Audited /\ previousDirectoryLog.kind = "log"

Current == directoryLog.issuerInfo

Previous == previousDirectoryLog.issuerInfo

\* the identifier an entry is compared by
Id(info) == getIssuerUrl(options.test, info.issuer.iss)

KidSet(info) == Range(info.keys)

\* the pairs (previous entry, current entry) of one issuer
SameIssuer == {p \in (DOMAIN Previous) \X (DOMAIN Current) : Id(Previous[p[1]]) = Id(Current[p[2]])}

\* the pairs of one issuer with a previous key id the current entry lacks
LostKeys == {p \in SameIssuer : KidSet(Previous[p[1]]) \ KidSet(Current[p[2]]) # {}}

\* C1: getDuplicates(items) returns, as a set, exactly the values that occur
\* at least twice in items (the empty string included), each of them once.
C1_DuplicatesExact ==
    pc = "returned" =>
        /\ Range(duplicates) = {v \in Range(array) : Count(array, v) >= 2}
        /\ \A v \in Range(duplicates) : Count(duplicates, v) = 1

\* C2: once the directory document is fetched and parsed, fetchDirectory returns
\* a snapshot whatever subset of key fetches fails: it has an entry for every
\* issuer, the entry of an issuer whose key fetch failed has keys = [] and a
\* non-empty errors, and every other entry is what that issuer's own response
\* gives (its issuer, the keys served, no error, when a key set was served).
C2_FailuresIsolated ==
    Fetched =>
        /\ Len(directoryLog.issuerInfo) = Len(issuers)
        /\ \A i \in 1..Len(issuers) :
              LET info == directoryLog.issuerInfo[i]
              IN /\ FetchFailed(response[i]) =>
                       info.hasKeys /\ info.keys = <<>> /\ info.errors # <<>>
                 /\ response[i].kind = "keySet" =>
                       info = [issuer |-> issuers[i], keys |-> response[i].keys,
                               hasKeys |-> TRUE, errors |-> <<>>]
                 /\ ~FetchFailed(response[i]) =>
                       info = IssuerTask(issuers[i], response[i]).value

\* a snapshot in which one key fetch failed and another served a key set
C2_Witness ==
    /\ Fetched
    /\ \E i, j \in 1..Len(issuers) :
          FetchFailed(response[i]) /\ response[j].kind = "keySet"

\* C3: in every returned snapshot, an entry's errors is non-empty iff the
\* issuer's fetch or parse failed (timeout, non-success response, malformed
\* JSON, a body lacking `keys`), and then its keys is the empty sequence.
C3_ErrorsIffFailed ==
    Fetched =>
        \A i \in 1..Len(issuers) :
           LET info == directoryLog.issuerInfo[i]
           IN /\ info.errors # <<>> <=> response[i].kind # "keySet"
              /\ info.errors # <<>> => info.hasKeys /\ info.keys = <<>>

\* C4: whatever the order in which the key fetches complete, the returned
\* snapshot has one entry per issuer of the directory, entry i being the one
\* task i produced for the directory's i-th issuer, and it is returned only
\* once every per-issuer fetch has settled.
C4_OrderPreserved ==
    Fetched =>
        /\ Len(directoryLog.issuerInfo) = Len(issuers)
        /\ \A i \in 1..Len(issuers) :
              /\ taskState[i] # "pending"
              /\ directoryLog.issuerInfo[i].issuer = issuers[i]
              /\ directoryLog.issuerInfo[i] = taskValue[i]

\* a snapshot whose key fetches completed in another order than the directory's
C4_Witness ==
    /\ Fetched
    /\ \E k \in 1..(Len(settled) - 1) : settled[k] > settled[k + 1]

\* C5: with a previous snapshot, removedKids holds an entry {iss, kids} exactly
\* for the issuers present in both snapshots whose previous key ids are not all
\* among the current ones, kids being that difference (once per matching pair
\* of entries); an issuer in one snapshot only, or with no key id lost, has none.
C5_RemovedKidsExact ==
    Compared =>
        /\ \A k \in DOMAIN auditLog.removedKids :
              \E p \in LostKeys :
                 /\ auditLog.removedKids[k].iss = Id(Previous[p[1]])
                 /\ Range(auditLog.removedKids[k].kids)
                       = KidSet(Previous[p[1]]) \ KidSet(Current[p[2]])
        /\ \A p \in LostKeys :
              \E k \in DOMAIN auditLog.removedKids :
                 /\ auditLog.removedKids[k].iss = Id(Previous[p[1]])
                 /\ Range(auditLog.removedKids[k].kids)
                       = KidSet(Previous[p[1]]) \ KidSet(Current[p[2]])
        /\ Len(auditLog.removedKids) = Cardinality(LostKeys)

\* a report with a removed key for one issuer and none for another issuer of
\* both snapshots, which only gained a key
C5_Witness ==
    /\ Compared
    /\ auditLog.removedKids # <<>>
    /\ \E p \in SameIssuer :
          /\ KidSet(Previous[p[1]]) \subseteq KidSet(Current[p[2]])
          /\ KidSet(Previous[p[1]]) # KidSet(Current[p[2]])
          /\ \A k \in DOMAIN auditLog.removedKids :
                auditLog.removedKids[k].iss # Id(Previous[p[1]])

\* C6: with a previous snapshot, newIssuerCount counts the current entries whose
\* identifier no previous entry has and deletedIssuerCount the previous entries
\* whose identifier no current entry has; with none, newIssuerCount,
\* deletedIssuerCount and removedKids are absent from the report.
C6_IssuerCounts ==
    Audited =>
        IF previousDirectoryLog.kind = "log"
        THEN /\ {"newIssuerCount", "deletedIssuerCount", "removedKids"} \subseteq DOMAIN auditLog
             /\ auditLog.newIssuerCount =
                   Cardinality({j \in DOMAIN Current :
                                   \A i \in DOMAIN Previous : Id(Previous[i]) # Id(Current[j])})
             /\ auditLog.deletedIssuerCount =
                   Cardinality({i \in DOMAIN Previous :
                                   \A j \in DOMAIN Current : Id(Previous[i]) # Id(Current[j])})
        ELSE {"newIssuerCount", "deletedIssuerCount", "removedKids"} \cap DOMAIN auditLog = {}

\* current {A, B} against previous {A, C}: one new issuer, one deleted
C6_Witness ==
    /\ Compared
    /\ Len(Current) = 2
    /\ Len(Previous) = 2
    /\ Id(Current[1]) = Id(Previous[1])
    /\ Id(Current[1]) # Id(Current[2])
    /\ auditLog.newIssuerCount = 1
    /\ auditLog.deletedIssuerCount = 1

\* C7 as stated: for any snapshot S, also one in which an issuer identifier
\* occurs more than once, audit(isTest, S, S) yields newIssuerCount = 0,
\* deletedIssuerCount = 0 and removedKids = [].
C7_SelfDiffEmpty ==
    Audited /\ previousDirectoryLog = directoryLog =>
        /\ auditLog.newIssuerCount = 0
        /\ auditLog.deletedIssuerCount = 0
        /\ auditLog.removedKids = <<>>

\* C7 as amended: audit(isTest, S, S) yields newIssuerCount = 0 and
\* deletedIssuerCount = 0 for any S, and removedKids = [] exactly when the
\* entries of S that share a normalized identifier have the same key ids (so
\* whenever no identifier occurs twice).
C7_SelfDiff ==
    Audited /\ previousDirectoryLog = directoryLog =>
        /\ auditLog.newIssuerCount = 0
        /\ auditLog.deletedIssuerCount = 0
        /\ auditLog.removedKids = <<>> <=>
              \A i, j \in DOMAIN Current :
                 Id(Current[i]) = Id(Current[j]) => KidSet(Current[i]) = KidSet(Current[j])

\* a snapshot listing one identifier twice, diffed with itself, nothing reported
C7_Witness ==
    /\ Audited
    /\ previousDirectoryLog = directoryLog
    /\ Len(Current) = 2
    /\ Id(Current[1]) = Id(Current[2])
    /\ auditLog.removedKids = <<>>

\* C8: when a previous path was given and the file failed to load or parse as
\* a DirectorySnapshot, the run still gets a report from the auditor, the one
\* audit gives with no previous snapshot.  (Stated for the runs whose current
\* snapshot has a keys array in every entry.)
C8_PreviousFailureRecovered ==
    /\ options.previous
    /\ previousFile.kind \in {"missing", "unreadable", "malformed", "null", "object"}
    /\ "audit" \in Range(steps)
    /\ \A i \in DOMAIN Current : Current[i].hasKeys
    =>
    /\ failure.step # "audit"
    /\ auditLog = AuditAlways(options.test, directoryLog)
    /\ {"newIssuerCount", "deletedIssuerCount", "removedKids"} \cap DOMAIN auditLog = {}

StepOrder == <<"fetch", "writeDirectoryLog", "loadPrevious", "audit", "writeAuditLog">>

\* C9: the steps run in the order fetch, write directory log, load previous,
\* audit, write audit log; the audit log is written only after the fetch
\* succeeded and the directory log was written; a failed fetch leaves no log
\* file; after a fatal failure there is no audit log and no later step runs.
C9_StepOrder ==
    /\ Len(steps) <= Len(StepOrder)
    /\ steps = SubSeq(StepOrder, 1, Len(steps))
    /\ auditLogFile # NoFile =>
          /\ directoryLog.kind = "log"
          /\ directoryLogFile = directoryLog
          /\ steps = StepOrder
    /\ failure.step = "fetch" => directoryLogFile = NoFile /\ auditLogFile = NoFile
    /\ failure # NoFailure =>
          /\ auditLogFile = NoFile
          /\ pc = "failed"
          /\ steps[Len(steps)] = failure.step

\* a run that wrote both logs
C9_Witness ==
    /\ pc = "done"
    /\ auditLogFile = auditLog
    /\ directoryLogFile # NoFile

\* C10 as stated: every entry of removedKids names an issuer present in both
\* snapshots whose current key set is strictly smaller than its previous one.
C10_StrictlySmaller ==
    Compared =>
        \A k \in DOMAIN auditLog.removedKids :
           \E p \in SameIssuer :
              /\ auditLog.removedKids[k].iss = Id(Previous[p[1]])
              /\ Cardinality(KidSet(Current[p[2]])) < Cardinality(KidSet(Previous[p[1]]))

\* C10 as amended: every entry of removedKids names an issuer present in both
\* snapshots and lists at least one key id, each of them a key id of that
\* issuer in the previous snapshot that its current key set lacks; the current
\* key set need not be smaller.
C10_LostKeysOnly ==
    Compared =>
        \A k \in DOMAIN auditLog.removedKids :
           /\ auditLog.removedKids[k].kids # <<>>
           /\ \E p \in SameIssuer :
                 /\ auditLog.removedKids[k].iss = Id(Previous[p[1]])
                 /\ \A kid \in Range(auditLog.removedKids[k].kids) :
                       kid \in KidSet(Previous[p[1]]) /\ kid \notin KidSet(Current[p[2]])

\* a reported issuer whose keys were replaced, its current key set no smaller
C10_Witness ==
    /\ Compared
    /\ \E k \in DOMAIN auditLog.removedKids :
          \A p \in SameIssuer :
             auditLog.removedKids[k].iss = Id(Previous[p[1]]) =>
                Cardinality(KidSet(Current[p[2]])) >= Cardinality(KidSet(Previous[p[1]]))

====
